---- MODULE Spec2Model ----
(***************************************************************************)
(* PlaystationController2USB.ino: a fixed-rate poll loop that probes a PSX *)
(* controller, tracks its presence and maps every frame that was read to   *)
(* a USB joystick report.                                                  *)
(*                                                                         *)
(* The millisecond clock and the `last' timestamp are unsigned counters;   *)
(* their range is ClockMod here (2^32 on the target), differences are      *)
(* taken modulo ClockMod as the unsigned subtraction of the sketch does.   *)
(***************************************************************************)
EXTENDS Integers, Sequences, FiniteSets, TLC

\* ------------------------------------------------------------------ bounds
\* range of the millisecond counter (2^32 on the target)
ClockMod == 30
\* longest time between two consecutive loop() calls, in ms
MaxStep == 5
\* longest time between the two millis() readings of one loop() call, in ms
MaxDrift == 1

\* --------------------------------------------------------------- constants
POLLING_INTERVAL == 1000 \div 50

ANALOG_MIN_VALUE == 0
ANALOG_MAX_VALUE == 255
\* variant: the idle value one lower, the middle of the range rounded down
IdleRoundedDown == ANALOG_MAX_VALUE \div 2
ANALOG_IDLE_VALUE == 128
ANALOG_DEAD_ZONE == 50
JOYSTICK_HATSWITCH_RELEASE == -1

\* variant: square and cross exchanged
ButtonOrderExchanged ==
    << "PSB_CROSS", "PSB_SQUARE", "PSB_CIRCLE", "PSB_TRIANGLE",
       "PSB_L1", "PSB_R1", "PSB_L2", "PSB_R2",
       "PSB_SELECT", "PSB_START", "PSB_L3", "PSB_R3" >>

\* the twelve controller buttons in the order the sketch copies them to
\* HID buttons 0..11
ButtonOrder ==
    << "PSB_SQUARE", "PSB_CROSS", "PSB_CIRCLE", "PSB_TRIANGLE",
       "PSB_L1", "PSB_R1", "PSB_L2", "PSB_R2",
       "PSB_SELECT", "PSB_START", "PSB_L3", "PSB_R3" >>

PadButtons == {"PSB_PAD_UP", "PSB_PAD_DOWN", "PSB_PAD_LEFT", "PSB_PAD_RIGHT"}

\* ------------------------------------------------------------------ inputs
\* A Raw Controller Frame: the pressed buttons, whether the analog sticks
\* are valid, and the two stick positions.
Frame(b, valid, lx, ly, rx, ry) ==
    [buttons |-> b, analogValid |-> valid,
     lx |-> lx, ly |-> ly, rx |-> rx, ry |-> ry]

\* digital-mode frames: every D-pad combination, sticks not reported
DigitalFrames ==
    { Frame(p, FALSE, ANALOG_IDLE_VALUE, ANALOG_IDLE_VALUE,
               ANALOG_IDLE_VALUE, ANALOG_IDLE_VALUE) : p \in SUBSET PadButtons }

ButtonFrames ==
    { Frame(b, FALSE, ANALOG_IDLE_VALUE, ANALOG_IDLE_VALUE,
               ANALOG_IDLE_VALUE, ANALOG_IDLE_VALUE) :
        b \in { {"PSB_SQUARE"}, {"PSB_START", "PSB_R3"},
                {"PSB_CROSS", "PSB_PAD_UP"} } }

\* analog-mode frames
AnalogFrames ==
    { Frame({}, TRUE, 128, 128, 128, 128),
      Frame({}, TRUE, 0, 255, 200, 127),
      Frame({"PSB_PAD_DOWN"}, TRUE, 128, 128, 127, 77),
      Frame({"PSB_L1"}, TRUE, 255, 0, 0, 0) }

Frames == DigitalFrames \cup ButtonFrames \cup AnalogFrames

\* the frames of the timing model: two digital-mode and two analog-mode ones
CoreFrames ==
    { Frame({}, FALSE, ANALOG_IDLE_VALUE, ANALOG_IDLE_VALUE,
                       ANALOG_IDLE_VALUE, ANALOG_IDLE_VALUE),
      Frame({"PSB_CROSS", "PSB_PAD_UP"}, FALSE,
            ANALOG_IDLE_VALUE, ANALOG_IDLE_VALUE,
            ANALOG_IDLE_VALUE, ANALOG_IDLE_VALUE),
      Frame({}, TRUE, 128, 128, 128, 128),
      Frame({}, TRUE, 0, 255, 200, 127) }

\* ------------------------------------------------------------------- state
VARIABLES
    now,            \* millis (): the value of the millisecond counter
    last,           \* static unsigned long last
    haveController, \* boolean haveController
    usbStick,       \* the report held by the Joystick_ object
    psx,            \* the frame held by the driver object (last read)
    gate,           \* history: the clock reading the last loop() tested
    tick,           \* history: what the last loop() call did
    calls,          \* history: driver and USB calls of the last loop() call
    since           \* history: the time that really passed since `last' was
                    \* taken, in ms, counted up to SinceCap

vars == << now, last, haveController, usbStick, psx, gate, tick, calls,
           since >>

\* `since' stops counting here (two polling intervals)
SinceCap == 2 * POLLING_INTERVAL

\* ------------------------------------------------------- pure computations
\* variant: a plain difference, as of signed values
ElapsedNoWrap(a, b) == a - b

\* unsigned subtraction a - b of two clock values
Elapsed(a, b) == (a - b) % ClockMod

\* variant: the tick comes one millisecond early
DueEarly(m, l) == Elapsed(m, l) >= POLLING_INTERVAL - 1

\* the test of line 88
Due(m, l) == Elapsed(m, l) >= POLLING_INTERVAL

buttonPressed(f, b) == b \in f.buttons

\* both stick getters report the driver's validity flag of the frame
getLeftAnalog(f) == f.analogValid
getRightAnalog(f) == f.analogValid

abs(v) == IF v > 0 THEN v ELSE -v

\* conversion of an int to int8_t
ToInt8(v) == ((v + 128) % 256) - 128

\* variant: a deviation of exactly the threshold is kept
deadifyInclusive(var, thres) == IF abs(var) >= thres THEN var ELSE 0

deadify(var, thres) == IF abs(var) > thres THEN var ELSE 0

\* variant: the deviation without the offset of one
DeviationNoOffset(raw) ==
    deadify(ToInt8(ANALOG_IDLE_VALUE - raw), ANALOG_DEAD_ZONE)

\* int8_t rx = ANALOG_IDLE_VALUE - x - 1; rx = deadify (rx, ANALOG_DEAD_ZONE)
Deviation(raw) == deadify(ToInt8(ANALOG_IDLE_VALUE - raw - 1), ANALOG_DEAD_ZONE)

\* lines 118-129
ButtonsOf(f) == [i \in 0..11 |-> buttonPressed(f, ButtonOrder[i + 1])]

\* variant: the values of up and down swapped
YAxisSwapped(f) ==
    IF buttonPressed(f, "PSB_PAD_UP") THEN ANALOG_MAX_VALUE
    ELSE IF buttonPressed(f, "PSB_PAD_DOWN") THEN ANALOG_MIN_VALUE
    ELSE ANALOG_IDLE_VALUE

\* variant: down tested before up
YAxisDownFirst(f) ==
    IF buttonPressed(f, "PSB_PAD_DOWN") THEN ANALOG_MAX_VALUE
    ELSE IF buttonPressed(f, "PSB_PAD_UP") THEN ANALOG_MIN_VALUE
    ELSE ANALOG_IDLE_VALUE

\* lines 132-138
YAxisOf(f) ==
    IF buttonPressed(f, "PSB_PAD_UP") THEN ANALOG_MIN_VALUE
    ELSE IF buttonPressed(f, "PSB_PAD_DOWN") THEN ANALOG_MAX_VALUE
    ELSE ANALOG_IDLE_VALUE

\* lines 140-146
XAxisOf(f) ==
    IF buttonPressed(f, "PSB_PAD_LEFT") THEN ANALOG_MIN_VALUE
    ELSE IF buttonPressed(f, "PSB_PAD_RIGHT") THEN ANALOG_MAX_VALUE
    ELSE ANALOG_IDLE_VALUE

\* --------------------------------------------------------------- hat angle
\* tan ((k - 1/2) degrees) * TanScale for k = 1..45, rounded to the nearest
\* integer: the slopes at which the angle rounded to a whole degree changes
TanScale == 10000000

TanHalf ==
    << 87269, 261859, 436609, 611626, 787017, 962890, 1139356, 1316525,
       1494510, 1673426, 1853390, 2034523, 2216947, 2400788, 2586176,
       2773245, 2962135, 3152988, 3345953, 3541186, 3738847, 3939105,
       4142136, 4348124, 4557263, 4769755, 4985816, 5205671, 5429557,
       5657728, 5890450, 6128008, 6370703, 6618856, 6872810, 7132931,
       7399611, 7673270, 7954359, 8243364, 8540807, 8847253, 9163312,
       9489646, 9826973 >>

\* atan (b / a) in degrees, rounded to the nearest integer, for 0 <= b <= a
\* and a > 0: the number of half-degree slopes that b / a has passed
RoundAtanDeg(a, b) ==
    Cardinality({ k \in 1..45 : TanHalf[k] * a <= b * TanScale })

\* atan2 (y, x) in degrees, rounded to the nearest integer, in -180..180,
\* for (x, y) # (0, 0)
RoundAtan2Deg(y, x) ==
    LET ax == abs(x)
        ay == abs(y)
        q  == IF ay <= ax THEN RoundAtanDeg(ax, ay)
                          ELSE 90 - RoundAtanDeg(ay, ax)
        up == IF x >= 0 THEN q ELSE 180 - q
    IN  IF y >= 0 THEN up ELSE -up

\* variant: the arguments of atan2 exchanged
HatAngleExchanged(rx, ry) == (RoundAtan2Deg(rx, ry) + 270) % 360

\* variant: the rounded angle is not reduced modulo 360
HatAngleNoMod(rx, ry) == RoundAtan2Deg(ry, rx) + 270

\* lines 167-168: angle = atan2 (ry, rx) + 2 * PI - PI / 2;
\* intAngle = ((uint16_t) (toDegrees (angle) + 0.5)) % 360
HatAngle(rx, ry) == (RoundAtan2Deg(ry, rx) + 270) % 360

\* lines 157-170: the value given to setHatSwitch for a raw right stick
HatOf(x, y) ==
    LET rx == Deviation(x)
        ry == Deviation(y)
    IN  IF rx = 0 /\ ry = 0 THEN JOYSTICK_HATSWITCH_RELEASE
        ELSE HatAngle(rx, ry)

\* ------------------------------------------------------------ the pipeline
Call(op, a, v) == [op |-> op, a |-> a, v |-> v]

BoolInt(b) == IF b THEN 1 ELSE 0

\* variant: exitConfigMode outside the else branch
ConfigCallsExitAlways(enter, enable, exit) ==
    << Call("enterConfigMode", 0, BoolInt(enter)) >> \o
    ( IF ~enter THEN << >>
      ELSE << Call("enableAnalogSticks", 0, BoolInt(enable)) >> ) \o
    << Call("exitConfigMode", 0, BoolInt(exit)) >>

\* variant: a failed enableAnalogSticks ends the sequence
ConfigCallsStopOnFail(enter, enable, exit) ==
    << Call("enterConfigMode", 0, BoolInt(enter)) >> \o
    ( IF ~enter THEN << >>
      ELSE << Call("enableAnalogSticks", 0, BoolInt(enable)) >> \o
           ( IF ~enable THEN << >>
             ELSE << Call("exitConfigMode", 0, BoolInt(exit)) >> ) )

\* lines 94-105: the configuration sequence of a connect
ConfigCalls(enter, enable, exit) ==
    << Call("enterConfigMode", 0, BoolInt(enter)) >> \o
    ( IF ~enter THEN << >>
      ELSE << Call("enableAnalogSticks", 0, BoolInt(enable)),
              Call("exitConfigMode", 0, BoolInt(exit)) >> )

\* variant: no else before the read branch, a connect goes on to read
ProbeCallsThenRead(found, enter, enable, exit) ==
    << Call("begin", 0, BoolInt(found)) >> \o
    ( IF found
      THEN ConfigCalls(enter, enable, exit) \o << Call("read", 0, 0) >>
      ELSE << >> )

\* variant: the configuration sequence outside the test of begin ()
ProbeCallsAlwaysConfig(found, enter, enable, exit) ==
    << Call("begin", 0, BoolInt(found)) >> \o
    ConfigCalls(enter, enable, exit)

\* lines 92-108: the calls of a tick that starts without a controller
ProbeCalls(found, enter, enable, exit) ==
    << Call("begin", 0, BoolInt(found)) >> \o
    ( IF found THEN ConfigCalls(enter, enable, exit) ELSE << >> )

\* variant: haveController set only where enterConfigMode succeeded
HaveIfConfigMode(found, enter, enable, exit) ==
    IF found /\ enter THEN TRUE ELSE FALSE

\* variant: haveController set only when the whole sequence succeeded
HaveIfConfigured(found, enter, enable, exit) ==
    IF found /\ enter /\ enable /\ exit THEN TRUE ELSE FALSE

\* lines 92-108: haveController after the probe branch
HaveAfterProbe(found, enter, enable, exit) ==
    IF found THEN TRUE ELSE FALSE

\* variant: a failed read does not clear haveController
HaveKept(ok) == TRUE

\* lines 110-113: haveController after the read branch
HaveAfterRead(ok) ==
    IF ~ok THEN FALSE ELSE TRUE

\* lines 118-171: the report held by usbStick after mapping frame f; a
\* field the sketch does not set keeps the value u holds
Report(u, f) ==
    [ buttons |-> ButtonsOf(f),
      yAxis   |-> YAxisOf(f),
      xAxis   |-> XAxisOf(f),
      rxAxis  |-> IF getLeftAnalog(f) THEN f.lx ELSE u.rxAxis,
      ryAxis  |-> IF getLeftAnalog(f) THEN f.ly ELSE u.ryAxis,
      hat     |-> IF getRightAnalog(f) THEN HatOf(f.rx, f.ry) ELSE u.hat ]

\* lines 118-174: the Joystick_ calls of a tick whose read succeeded
MapCalls(f) ==
    [ i \in 1..12 |->
        Call("setButton", i - 1,
             BoolInt(buttonPressed(f, ButtonOrder[i]))) ] \o
    << Call("setYAxis", 0, YAxisOf(f)), Call("setXAxis", 0, XAxisOf(f)) >> \o
    ( IF getLeftAnalog(f)
      THEN << Call("setRxAxis", 0, f.lx), Call("setRyAxis", 0, f.ly) >>
      ELSE << >> ) \o
    ( IF getRightAnalog(f)
      THEN << Call("setHatSwitch", 0, HatOf(f.rx, f.ry)) >>
      ELSE << >> ) \o
    << Call("sendState", 0, 0) >>

\* variant: sendState outside the else branch of the read test
ReadCallsSendAlways(ok, f) ==
    << Call("read", 0, BoolInt(ok)) >> \o
    ( IF ok THEN MapCalls(f) ELSE << Call("sendState", 0, 0) >> )

\* lines 110-175: the calls of a tick that starts with a controller
ReadCalls(ok, f) ==
    << Call("read", 0, BoolInt(ok)) >> \o
    ( IF ok THEN MapCalls(f) ELSE << >> )

\* ---------------------------------------------------------- initial state
\* the Joystick_ object after its construction and setup ()
InitialReport ==
    [ buttons |-> [i \in 0..11 |-> FALSE],
      yAxis   |-> 0,
      xAxis   |-> 0,
      rxAxis  |-> 0,
      ryAxis  |-> 0,
      hat     |-> JOYSTICK_HATSWITCH_RELEASE ]

\* the driver object before any read
InitialFrame ==
    Frame({}, FALSE, ANALOG_IDLE_VALUE, ANALOG_IDLE_VALUE,
                     ANALOG_IDLE_VALUE, ANALOG_IDLE_VALUE)

Init ==
    /\ now = 0
    /\ last = 0
    /\ haveController = FALSE
    /\ usbStick = InitialReport
    /\ psx = InitialFrame
    /\ gate = 0
    /\ tick = "none"
    /\ calls = << >>
    /\ since = 0

\* ------------------------------------------------------------------ loop ()
\* loop () called d ms after the previous clock reading, interval not over
LoopIdle(d) ==
    LET m == (now + d) % ClockMod
    IN  /\ ~Due(m, last)
        /\ now' = m
        /\ gate' = m
        /\ tick' = "idle"
        /\ calls' = << >>
        /\ since' = IF since + d < SinceCap THEN since + d ELSE SinceCap
        /\ UNCHANGED << last, haveController, usbStick, psx >>

\* loop () with the interval over and no controller: probe and configure;
\* e is the time between the two millis () readings
LoopProbe(d, e, found, enter, enable, exit) ==
    LET m == (now + d) % ClockMod
    IN  /\ Due(m, last)
        /\ ~haveController
        /\ last' = (m + e) % ClockMod
        /\ now' = last'
        /\ gate' = m
        /\ tick' = "probe"
        /\ calls' = ProbeCalls(found, enter, enable, exit)
        /\ haveController' = HaveAfterProbe(found, enter, enable, exit)
        /\ since' = 0
        /\ UNCHANGED << usbStick, psx >>

\* loop () with the interval over and a controller: read, map and send
LoopRead(d, e, ok, f) ==
    LET m == (now + d) % ClockMod
    IN  /\ Due(m, last)
        /\ haveController
        /\ last' = (m + e) % ClockMod
        /\ now' = last'
        /\ gate' = m
        /\ tick' = "read"
        /\ calls' = ReadCalls(ok, f)
        /\ haveController' = HaveAfterRead(ok)
        /\ psx' = IF ok THEN f ELSE psx
        /\ usbStick' = IF ok THEN Report(usbStick, f) ELSE usbStick
        /\ since' = 0

Next ==
    \/ \E d \in 0..MaxStep : LoopIdle(d)
    \/ \E d \in 0..MaxStep, e \in 0..MaxDrift, found \in BOOLEAN,
          enter \in BOOLEAN, enable \in BOOLEAN, exit \in BOOLEAN :
          LoopProbe(d, e, found, enter, enable, exit)
    \/ \E d \in 0..MaxStep, e \in 0..MaxDrift, ok \in BOOLEAN,
          f \in CoreFrames :
          LoopRead(d, e, ok, f)

Spec == Init /\ [][Next]_vars

\* loop () called by a steady schedule, once every POLLING_INTERVAL ms, so
\* that every call runs the pipeline; the frames range over Frames
MapNext ==
    \/ \E found \in BOOLEAN, enter \in BOOLEAN, enable \in BOOLEAN,
          exit \in BOOLEAN :
          LoopProbe(POLLING_INTERVAL, 0, found, enter, enable, exit)
    \/ \E ok \in BOOLEAN, f \in Frames :
          LoopRead(POLLING_INTERVAL, 0, ok, f)

MapSpec == Init /\ [][MapNext]_vars

TypeOK ==
    /\ now \in 0..(ClockMod - 1)
    /\ last \in 0..(ClockMod - 1)
    /\ haveController \in BOOLEAN
    /\ psx \in Frames \cup {InitialFrame}
    /\ tick \in {"none", "idle", "probe", "read"}

\* the clock advances and loop () is called again: the Arduino core calls
\* loop () forever and the timer interrupt keeps counting milliseconds
Advance == Next /\ now' # now

LiveSpec == Spec /\ WF_vars(Advance)

\* --------------------------------------------------- reading the histories
\* the last loop () call ran the pipeline
Ran == tick \in {"probe", "read"}

\* number of calls of op in the last loop () call
Count(op) == Cardinality({ i \in 1..Len(calls) : calls[i].op = op })

\* op was called in the last loop () call and returned v
Returned(op, v) == \E i \in 1..Len(calls) : calls[i].op = op /\ calls[i].v = v

ConfigOps == {"enterConfigMode", "enableAnalogSticks", "exitConfigMode"}

UsbOps == {"setButton", "setXAxis", "setYAxis", "setRxAxis", "setRyAxis",
           "setHatSwitch", "sendState"}

IsConfigCall(c) == c.op \in ConfigOps

\* the names of the configuration calls of the last loop () call, in order
ConfigTrace ==
    LET cs == SelectSeq(calls, IsConfigCall)
    IN  [i \in 1..Len(cs) |-> cs[i].op]

\* the last loop () call sent a report; usbStick then holds what was sent
Sent == Len(calls) > 0 /\ calls[Len(calls)].op = "sendState"

\* a probe or a read of the last loop () call failed
Failure == Returned("begin", 0) \/ Returned("read", 0)

Pressed(b) == b \in psx.buttons

\* ------------------------------------------------------------------ claims

\* C1: the pipeline runs at most once per 20 ms: a loop () call runs it only
\* when the clock reading it tests is at least 20 ms after the last-run
\* timestamp, so two consecutive runs are at least 20 ms apart; a call made
\* earlier changes neither the presence flag nor the timestamp nor the report
\* and makes no driver or USB call.
C1_PollGate ==
    [][ /\ Ran' => /\ Elapsed(gate', last) >= POLLING_INTERVAL
                   /\ Elapsed(last', last) >= POLLING_INTERVAL
        /\ Elapsed(gate', last) < POLLING_INTERVAL =>
               /\ ~Ran'
               /\ haveController' = haveController
               /\ last' = last
               /\ usbStick' = usbStick
               /\ calls' = << >> ]_vars

\* a loop () call that came too early after a tick that had connected
C1_Witness ==
    /\ tick = "idle"
    /\ haveController
    /\ Elapsed(gate, last) \in 1..(POLLING_INTERVAL - 1)

\* C2: the state starts DISCONNECTED; every executed tick that starts
\* DISCONNECTED calls the probe exactly once and ends CONNECTED exactly when
\* the probe returned true, whatever the configuration steps return.
C2_Connect ==
    /\ ~haveController
    /\ [][ (Ran' /\ ~haveController) =>
               /\ Count("begin")' = 1
               /\ Count("read")' = 0
               /\ haveController' <=> Returned("begin", 1)' ]_vars

\* connected although entering the configuration mode failed
C2_Witness ==
    /\ tick = "probe"
    /\ haveController
    /\ Returned("enterConfigMode", 0)

\* C3: an executed tick that starts CONNECTED and whose read fails ends
\* DISCONNECTED and makes no Joystick_ call, so no report is sent.
C3_Disconnect ==
    [][ (Ran' /\ haveController /\ Returned("read", 0)') =>
            /\ ~haveController'
            /\ \A i \in 1..Len(calls') : calls'[i].op \notin UsbOps
            /\ usbStick' = usbStick ]_vars

\* the first read after the first connect failed: nothing was ever sent
C3_Witness ==
    /\ tick = "read"
    /\ Returned("read", 0)
    /\ ~haveController
    /\ usbStick = InitialReport

\* C4: sendState is called in a loop () call exactly when that call ran the
\* pipeline starting CONNECTED and its read succeeded; it is then called
\* once, as the last call after all the updates, and the state stays
\* CONNECTED.
C4_ReportEmission ==
    [][ /\ Count("sendState")' >= 1 <=>
               (Ran' /\ haveController /\ Returned("read", 1)')
        /\ Count("sendState")' >= 1 =>
               /\ Count("sendState")' = 1
               /\ Sent'
               /\ Count("setButton")' = 12
               /\ Count("setXAxis")' = 1
               /\ Count("setYAxis")' = 1
               /\ haveController' ]_vars

C4_Witness ==
    /\ tick = "read"
    /\ Sent
    /\ haveController
    /\ Returned("read", 1)

\* C5: the configuration calls are made only in a tick that starts
\* DISCONNECTED and whose probe succeeded, each at most once; every such
\* tick, also one after a disconnect, enters the sequence again.
C5_ConfigOncePerConnect ==
    [][ /\ \A op \in ConfigOps :
               /\ Count(op)' <= 1
               /\ Count(op)' = 1 =>
                      (Ran' /\ ~haveController /\ Returned("begin", 1)')
        /\ (Ran' /\ ~haveController /\ Returned("begin", 1)') =>
               Count("enterConfigMode")' = 1 ]_vars

\* a connect after an earlier session (a report has been sent before)
C5_Witness ==
    /\ tick = "probe"
    /\ haveController
    /\ usbStick # InitialReport
    /\ Count("enterConfigMode") = 1

\* C6 as stated: every connect attempts enterConfigMode, enableAnalogSticks
\* and exitConfigMode in this order, whatever each of them returns.
C6_Original ==
    [][ (Ran' /\ ~haveController /\ Returned("begin", 1)') =>
            ConfigTrace' = << "enterConfigMode", "enableAnalogSticks",
                              "exitConfigMode" >> ]_vars

\* C6 amended: every connect attempts enterConfigMode first; when it
\* returned true, enableAnalogSticks and then exitConfigMode are attempted,
\* whatever enableAnalogSticks returns; when it returned false the other two
\* steps are skipped.
C6_Amended ==
    [][ (Ran' /\ ~haveController /\ Returned("begin", 1)') =>
            ConfigTrace' =
                IF Returned("enterConfigMode", 1)'
                THEN << "enterConfigMode", "enableAnalogSticks",
                        "exitConfigMode" >>
                ELSE << "enterConfigMode" >> ]_vars

\* enabling the sticks failed and the configuration mode was still left
C6_Witness ==
    /\ tick = "probe"
    /\ haveController
    /\ Returned("enableAnalogSticks", 0)
    /\ Count("exitConfigMode") = 1

\* C7: no state is a deadlock, and when from some point on no probe and no
\* read fails, the state becomes CONNECTED for good, reports are sent again
\* and again, and eventually every executed tick sends one.
C7_Recovers ==
    /\ [](ENABLED <<Next>>_vars)
    /\ (<>[](~Failure)) =>
           /\ <>[]haveController
           /\ []<>Sent
           /\ <>[](Ran => Sent)

\* reconnected after a lost controller, with a failed configuration step
C7_Witness ==
    /\ tick = "probe"
    /\ haveController
    /\ usbStick # InitialReport
    /\ \E op \in ConfigOps : Returned(op, 0)

\* C8 as stated: the report sent for a frame is the one a tick right after
\* power-up sends for the same frame, whatever was read or sent before.
C8_PureReport ==
    (tick = "read" /\ Sent) => usbStick = Report(InitialReport, psx)

\* C9: in every sent report X and Y are each minimum, idle or maximum, set
\* by the D-pad of the frame alone: up alone gives Y minimum, down alone Y
\* maximum, neither Y idle; left alone X minimum, right alone X maximum,
\* neither X idle.
C9_PadAxes ==
    (tick = "read" /\ Sent) =>
        LET up    == Pressed("PSB_PAD_UP")
            down  == Pressed("PSB_PAD_DOWN")
            left  == Pressed("PSB_PAD_LEFT")
            right == Pressed("PSB_PAD_RIGHT")
            three == {ANALOG_MIN_VALUE, ANALOG_IDLE_VALUE, ANALOG_MAX_VALUE}
        IN  /\ usbStick.yAxis \in three
            /\ usbStick.xAxis \in three
            /\ (up /\ ~down) => usbStick.yAxis = ANALOG_MIN_VALUE
            /\ (down /\ ~up) => usbStick.yAxis = ANALOG_MAX_VALUE
            /\ (~up /\ ~down) => usbStick.yAxis = ANALOG_IDLE_VALUE
            /\ (left /\ ~right) => usbStick.xAxis = ANALOG_MIN_VALUE
            /\ (right /\ ~left) => usbStick.xAxis = ANALOG_MAX_VALUE
            /\ (~left /\ ~right) => usbStick.xAxis = ANALOG_IDLE_VALUE

\* down pressed while the sticks report a position away from the centre
C9_Witness ==
    /\ tick = "read"
    /\ Sent
    /\ Pressed("PSB_PAD_DOWN")
    /\ psx.analogValid
    /\ psx.ly # ANALOG_MAX_VALUE
    /\ usbStick.yAxis = ANALOG_MAX_VALUE

\* C10 as stated: with up and down both pressed Y is the value for down,
\* and with left and right both pressed X is the value for right.
C10_Original ==
    (tick = "read" /\ Sent) =>
        /\ (Pressed("PSB_PAD_UP") /\ Pressed("PSB_PAD_DOWN")) =>
               usbStick.yAxis = ANALOG_MAX_VALUE
        /\ (Pressed("PSB_PAD_LEFT") /\ Pressed("PSB_PAD_RIGHT")) =>
               usbStick.xAxis = ANALOG_MAX_VALUE

\* C10 amended: with up and down both pressed Y is the value for up (the
\* minimum), and with left and right both pressed X is the value for left
\* (the minimum): the direction tested first wins.
C10_Amended ==
    (tick = "read" /\ Sent) =>
        /\ (Pressed("PSB_PAD_UP") /\ Pressed("PSB_PAD_DOWN")) =>
               usbStick.yAxis = ANALOG_MIN_VALUE
        /\ (Pressed("PSB_PAD_LEFT") /\ Pressed("PSB_PAD_RIGHT")) =>
               usbStick.xAxis = ANALOG_MIN_VALUE

C10_Witness ==
    /\ tick = "read"
    /\ Sent
    /\ Pressed("PSB_PAD_UP")
    /\ Pressed("PSB_PAD_DOWN")
    /\ Pressed("PSB_PAD_LEFT")
    /\ Pressed("PSB_PAD_RIGHT")
    /\ usbStick.yAxis = ANALOG_MIN_VALUE
    /\ usbStick.xAxis = ANALOG_MIN_VALUE

\* C11 as stated: in every sent report Rx and Ry are the raw x and y of the
\* first (left) stick of the frame read in that tick, in every mode.
C11_PassThrough ==
    (tick = "read" /\ Sent) =>
        /\ usbStick.rxAxis = psx.lx
        /\ usbStick.ryAxis = psx.ly

\* ------------------------------------------------------------ stick sweep
\* analog-mode frames with both sticks held at (x, y), for every raw pair
SweepFrames ==
    { Frame({}, TRUE, x, y, x, y) :
        x \in ANALOG_MIN_VALUE..ANALOG_MAX_VALUE,
        y \in ANALOG_MIN_VALUE..ANALOG_MAX_VALUE }

\* loop () called once every POLLING_INTERVAL ms: a connect, and then the
\* first read, which delivers any frame of SweepFrames
SweepNext ==
    \/ LoopProbe(POLLING_INTERVAL, 0, TRUE, TRUE, TRUE, TRUE)
    \/ /\ tick = "probe"
       /\ \E f \in SweepFrames : LoopRead(POLLING_INTERVAL, 0, TRUE, f)

SweepSpec == Init /\ [][SweepNext]_vars

\* ----------------------------------------------------------- button sweep
\* digital-mode frames with every combination of the sixteen buttons
ButtonSweepFrames ==
    { Frame(b, FALSE, ANALOG_IDLE_VALUE, ANALOG_IDLE_VALUE,
               ANALOG_IDLE_VALUE, ANALOG_IDLE_VALUE) :
        b \in SUBSET ({ ButtonOrder[i] : i \in 1..12 } \cup PadButtons) }

\* as SweepNext: a connect, and then the first read, which delivers any
\* frame of ButtonSweepFrames
ButtonNext ==
    \/ LoopProbe(POLLING_INTERVAL, 0, TRUE, TRUE, TRUE, TRUE)
    \/ /\ tick = "probe"
       /\ \E f \in ButtonSweepFrames :
              LoopRead(POLLING_INTERVAL, 0, TRUE, f)

ButtonSpec == Init /\ [][ButtonNext]_vars

\* the deviation center - raw - 1 of a raw stick value, as an integer
RawDeviation(raw) == ANALOG_IDLE_VALUE - raw - 1

\* the magnitude of the deviation of a raw stick value is in the dead zone
InDeadZone(raw) ==
    /\ RawDeviation(raw) <= ANALOG_DEAD_ZONE
    /\ RawDeviation(raw) >= -ANALOG_DEAD_ZONE

\* C12: for every raw right stick (x, y) that was read, each deviation
\* center - raw - 1 is zeroed on its own when its magnitude is at most 50 and
\* kept when it is larger, and the hat sent is `released' exactly when both
\* filtered deviations are zero; raw (127, 77) gives released.
C12_DeadZone ==
    (tick = "read" /\ Sent /\ psx.analogValid) =>
        /\ Deviation(psx.rx) =
               IF InDeadZone(psx.rx) THEN 0 ELSE RawDeviation(psx.rx)
        /\ Deviation(psx.ry) =
               IF InDeadZone(psx.ry) THEN 0 ELSE RawDeviation(psx.ry)
        /\ usbStick.hat = JOYSTICK_HATSWITCH_RELEASE <=>
               (InDeadZone(psx.rx) /\ InDeadZone(psx.ry))
        /\ (psx.rx = 127 /\ psx.ry = 77) =>
               usbStick.hat = JOYSTICK_HATSWITCH_RELEASE

\* a diagonal whose deviations are both 50: released although the combined
\* magnitude is above 50
C12_Witness ==
    /\ tick = "read"
    /\ Sent
    /\ psx.analogValid
    /\ RawDeviation(psx.rx) = ANALOG_DEAD_ZONE
    /\ RawDeviation(psx.ry) = ANALOG_DEAD_ZONE
    /\ usbStick.hat = JOYSTICK_HATSWITCH_RELEASE

\* C13: for every raw right stick (x, y) that was read and whose filtered
\* deviations are not both zero, the hat sent is a whole angle in 0..359,
\* never 360 or more, never negative and never the `released' code.
C13_HatRange ==
    (tick = "read" /\ Sent /\ psx.analogValid
        /\ ~(InDeadZone(psx.rx) /\ InDeadZone(psx.ry))) =>
        /\ usbStick.hat \in 0..359
        /\ usbStick.hat # JOYSTICK_HATSWITCH_RELEASE

\* the stick pushed right: the rotated angle is 450 degrees before the
\* reduction modulo 360
C13_Witness ==
    /\ tick = "read"
    /\ Sent
    /\ psx.analogValid
    /\ RawDeviation(psx.rx) < -ANALOG_DEAD_ZONE
    /\ InDeadZone(psx.ry)
    /\ usbStick.hat = 90

\* the deviation of a raw stick value after the dead zone, as the claims
\* state it
FilteredDeviation(raw) == IF InDeadZone(raw) THEN 0 ELSE RawDeviation(raw)

\* C14 as stated: with m in 51..127, the filtered deviation (m, 0) gives hat
\* 90, (0, m) gives 0, (-m, 0) gives 270 and (0, -m) gives 180.
C14_Original ==
    (tick = "read" /\ Sent /\ psx.analogValid) =>
        LET dx == FilteredDeviation(psx.rx)
            dy == FilteredDeviation(psx.ry)
        IN  /\ (dx \in 51..127 /\ dy = 0) => usbStick.hat = 90
            /\ (dx = 0 /\ dy \in 51..127) => usbStick.hat = 0
            /\ (-dx \in 51..127 /\ dy = 0) => usbStick.hat = 270
            /\ (dx = 0 /\ -dy \in 51..127) => usbStick.hat = 180

\* C14 amended: with m in 51..127, the filtered deviation (m, 0) gives hat
\* 270, (0, m) gives 0, (-m, 0) gives 90 and (0, -m) gives 180.
C14_Amended ==
    (tick = "read" /\ Sent /\ psx.analogValid) =>
        LET dx == FilteredDeviation(psx.rx)
            dy == FilteredDeviation(psx.ry)
        IN  /\ (dx \in 51..127 /\ dy = 0) => usbStick.hat = 270
            /\ (dx = 0 /\ dy \in 51..127) => usbStick.hat = 0
            /\ (-dx \in 51..127 /\ dy = 0) => usbStick.hat = 90
            /\ (dx = 0 /\ -dy \in 51..127) => usbStick.hat = 180

\* the stick pushed fully left (raw x = 0): deviation (127, 0), hat 270
C14_Witness ==
    /\ tick = "read"
    /\ Sent
    /\ psx.analogValid
    /\ FilteredDeviation(psx.rx) = 127
    /\ FilteredDeviation(psx.ry) = 0
    /\ usbStick.hat = 270

\* C15 as stated: for the raw right stick (200, 127) the x deviation is -74
\* and kept, the y deviation is filtered to zero and the hat sent is 180.
C15_Original ==
    (tick = "read" /\ Sent /\ psx.analogValid
        /\ psx.rx = 200 /\ psx.ry = 127) =>
        /\ Deviation(psx.rx) = -74
        /\ Deviation(psx.ry) = 0
        /\ usbStick.hat = 180

\* C15 amended: for the raw right stick (200, 127) the x deviation is -73
\* and kept, the y deviation is filtered to zero and the hat sent is 90.
C15_Amended ==
    (tick = "read" /\ Sent /\ psx.analogValid
        /\ psx.rx = 200 /\ psx.ry = 127) =>
        /\ Deviation(psx.rx) = -73
        /\ Deviation(psx.ry) = 0
        /\ usbStick.hat = 90

C15_Witness ==
    /\ tick = "read"
    /\ Sent
    /\ psx.analogValid
    /\ psx.rx = 200
    /\ psx.ry = 127
    /\ usbStick.hat = 90

\* C16: in every sent report HID buttons 0..11 are the pressed state of
\* square, cross, circle, triangle, L1, R1, L2, R2, select, start, L3, R3 of
\* the frame read in that tick; each of the twelve is written once in every
\* reporting tick, and no D-pad button changes a HID button.
C16_ButtonMap ==
    (tick = "read" /\ Sent) =>
        LET order == << "PSB_SQUARE", "PSB_CROSS", "PSB_CIRCLE",
                        "PSB_TRIANGLE", "PSB_L1", "PSB_R1", "PSB_L2",
                        "PSB_R2", "PSB_SELECT", "PSB_START", "PSB_L3",
                        "PSB_R3" >>
        IN  \A i \in 0..11 :
                /\ usbStick.buttons[i] = Pressed(order[i + 1])
                /\ Cardinality({ k \in 1..Len(calls) :
                       calls[k].op = "setButton" /\ calls[k].a = i }) = 1
                /\ \A k \in 1..Len(calls) :
                       (calls[k].op = "setButton" /\ calls[k].a = i) =>
                           calls[k].v = BoolInt(Pressed(order[i + 1]))

\* cross and the whole D-pad pressed: only HID button 1 is set
C16_Witness ==
    /\ tick = "read"
    /\ Sent
    /\ psx.buttons = {"PSB_CROSS"} \cup PadButtons
    /\ usbStick.buttons[1]
    /\ \A i \in (0..11) \ {1} : ~usbStick.buttons[i]

\* center - raw - 1 as stored in the int8_t variable of lines 157 and 160
StoredDeviation(raw) == ToInt8(ANALOG_IDLE_VALUE - raw - 1)

\* C17 as stated: for every raw value the stored deviation is the exact
\* center - raw - 1, within -128..127, it has the flipped sign of
\* raw - center, and raw 0 or 255 gives a deviation of the flipped sign
\* outside the dead zone.
C17_Original ==
    (tick = "read" /\ Sent /\ psx.analogValid) =>
        \A raw \in {psx.rx, psx.ry} :
            /\ StoredDeviation(raw) = ANALOG_IDLE_VALUE - raw - 1
            /\ StoredDeviation(raw) \in -128..127
            /\ raw > ANALOG_IDLE_VALUE => StoredDeviation(raw) < 0
            /\ raw = ANALOG_IDLE_VALUE => StoredDeviation(raw) = 0
            /\ raw < ANALOG_IDLE_VALUE => StoredDeviation(raw) > 0
            /\ raw = ANALOG_MIN_VALUE => Deviation(raw) > ANALOG_DEAD_ZONE
            /\ raw = ANALOG_MAX_VALUE => Deviation(raw) < -ANALOG_DEAD_ZONE

\* C17 amended: as stated, but the sign is flipped up to the offset of one:
\* the stored deviation is negative for raw >= center and not negative for
\* raw < center (zero for raw = center - 1).
C17_Amended ==
    (tick = "read" /\ Sent /\ psx.analogValid) =>
        \A raw \in {psx.rx, psx.ry} :
            /\ StoredDeviation(raw) = ANALOG_IDLE_VALUE - raw - 1
            /\ StoredDeviation(raw) \in -128..127
            /\ raw >= ANALOG_IDLE_VALUE => StoredDeviation(raw) < 0
            /\ raw < ANALOG_IDLE_VALUE => StoredDeviation(raw) >= 0
            /\ raw = ANALOG_MIN_VALUE => Deviation(raw) > ANALOG_DEAD_ZONE
            /\ raw = ANALOG_MAX_VALUE => Deviation(raw) < -ANALOG_DEAD_ZONE

\* both extremes at once: x at 255 and y at 0, the hat points up and right
C17_Witness ==
    /\ tick = "read"
    /\ Sent
    /\ psx.analogValid
    /\ psx.rx = ANALOG_MAX_VALUE
    /\ psx.ry = ANALOG_MIN_VALUE
    /\ StoredDeviation(psx.rx) = -128
    /\ StoredDeviation(psx.ry) = 127
    /\ usbStick.hat \in 1..89

\* the position of the call of op in the last loop () call, 0 when absent
Position(op) ==
    IF Count(op) = 0 THEN 0
    ELSE CHOOSE i \in 1..Len(calls) : calls[i].op = op

\* C18: in every tick enableAnalogSticks is called only after enterConfigMode
\* returned true, and exitConfigMode is called exactly when enterConfigMode
\* returned true, after enableAnalogSticks and whatever that returned; no
\* read is made in a tick that entered the configuration mode.
C18_ConfigBracket ==
    [][ /\ Count("enableAnalogSticks")' >= 1 =>
               /\ Returned("enterConfigMode", 1)'
               /\ Position("enterConfigMode")' < Position("enableAnalogSticks")'
        /\ Count("exitConfigMode")' >= 1 <=> Returned("enterConfigMode", 1)'
        /\ Count("exitConfigMode")' >= 1 =>
               /\ Count("exitConfigMode")' = 1
               /\ Count("enableAnalogSticks")' = 1
               /\ Position("enableAnalogSticks")' < Position("exitConfigMode")'
        /\ Count("enterConfigMode")' >= 1 => Count("read")' = 0 ]_vars

\* entering the configuration mode failed: neither of the other two calls
C18_Witness ==
    /\ tick = "probe"
    /\ haveController
    /\ Returned("enterConfigMode", 0)
    /\ Count("enableAnalogSticks") = 0
    /\ Count("exitConfigMode") = 0

\* C19: no loop () call makes both the probe and a read; the tick of the
\* probe makes no Joystick_ call, so it sends no report; a read, and so the
\* first report of a session, comes only in a tick that starts CONNECTED, at
\* least 20 ms after the timestamp of the tick before it.
C19_ProbeOrRead ==
    [][ /\ ~(Count("begin")' >= 1 /\ Count("read")' >= 1)
        /\ Count("begin")' >= 1 =>
               \A i \in 1..Len(calls') : calls'[i].op \notin UsbOps
        /\ (Count("read")' >= 1 \/ Count("sendState")' >= 1) =>
               /\ haveController
               /\ Elapsed(gate', last) >= POLLING_INTERVAL ]_vars

\* the tick that established the connection, with the whole configuration
\* sequence and no report
C19_Witness ==
    /\ tick = "probe"
    /\ haveController
    /\ Returned("begin", 1)
    /\ Len(calls) = 4
    /\ Count("read") = 0
    /\ Count("sendState") = 0

\* C20: the test of the interval stays right when the counter wraps: a
\* loop () call is a no-op only while less than 20 ms have really passed
\* since the last-run timestamp, and it runs the pipeline only when at least
\* 20 ms have really passed, whether or not the counter went past zero in
\* between.
C20_WrapSafe ==
    /\ [](tick = "idle" => since < POLLING_INTERVAL)
    /\ [][ Ran' => since + ((gate' - now) % ClockMod) >= POLLING_INTERVAL
         ]_vars

\* a tick at a clock reading below 20 after an earlier session: the counter
\* went past zero since the last-run timestamp
C20_Witness ==
    /\ Ran
    /\ gate < POLLING_INTERVAL
    /\ haveController
    /\ usbStick # InitialReport

====
